---- MODULE Spec2Model ----
(***************************************************************************)
(* Model of the habit tracker page script (src/app.py).                    *)
(*                                                                         *)
(* The script is a Streamlit page: every user interaction re-runs it from  *)
(* top to bottom against the session state.  One action of the model is    *)
(* one such page run.  Dates are day ordinals of one (non-leap) year;      *)
(* date.isoformat() of such dates orders exactly as the ordinals do.       *)
(* Korean literals of the source are written as ASCII glosses:             *)
(*   categories  "exercise" / "nutrition" / "mental-health"                *)
(*   keywords    "weight" "diet" "pressure" "sugar" "insomnia" "stress"    *)
(***************************************************************************)
EXTENDS Integers, Sequences, FiniteSets, TLC

VARIABLES
    history,                  \* st.session_state.history: list of rows
    today_saved,              \* st.session_state.today_saved
    recommended_by_category,  \* st.session_state.recommended_by_category
    daily_checklists,         \* st.session_state.daily_checklists
    selected_date,            \* value of the date_input widget
    mood,                     \* value of the mood slider
    checked_count,            \* module-level checked_count of the last run
    total_count,              \* len(checked_map) of the last run
    achievement_pct,          \* module-level achievement_pct of the last run
    calendar_rows,            \* date -> pct shown by the month calendar
    pressed,                  \* the recommendation button fired in the last run
    runs,                     \* number of page runs so far
    pure_in,                  \* inputs of a function checked on its own
    pure_out                  \* its result

pageVars == <<history, today_saved, recommended_by_category, daily_checklists,
              selected_date, mood, checked_count, total_count, achievement_pct,
              calendar_rows, pressed, runs>>
pureVars == <<pure_in, pure_out>>
vars == <<history, today_saved, recommended_by_category, daily_checklists,
          selected_date, mood, checked_count, total_count, achievement_pct,
          calendar_rows, pressed, runs, pure_in, pure_out>>

(***************************************************************************)
(* Bounds of the exploration.                                              *)
(***************************************************************************)
\* wall-clock day (ordinal in the year); 34 = 3 February, so that the
\* trailing week starts in the previous month
Today == 34
\* the user selects dates in Today - DaysBack .. Today + DaysFwd
DaysBack == 7
DaysFwd == 1
\* page runs explored per session
MaxRuns == 3
\* safe_pct is explored on totals up to MaxTotal
MaxTotal == 201

Min(a, b) == IF a < b THEN a ELSE b
Max(a, b) == IF a > b THEN a ELSE b

(***************************************************************************)
(* Strings.                                                                *)
(***************************************************************************)
\* `needle in text`
Contains(text, needle) ==
    \E i \in 1..(Len(text) - Len(needle) + 1) :
        SubSeq(text, i, i + Len(needle) - 1) = needle

UpperCase == <<"A", "B", "C", "D", "E", "F", "G", "H", "I", "J", "K", "L", "M",
               "N", "O", "P", "Q", "R", "S", "T", "U", "V", "W", "X", "Y", "Z">>
LowerCase == <<"a", "b", "c", "d", "e", "f", "g", "h", "i", "j", "k", "l", "m",
               "n", "o", "p", "q", "r", "s", "t", "u", "v", "w", "x", "y", "z">>

LowerChar(c) ==
    IF \E i \in 1..26 : UpperCase[i] = c
    THEN LowerCase[CHOOSE i \in 1..26 : UpperCase[i] = c]
    ELSE c

\* str.lower()
RECURSIVE Lower(_)
Lower(s) ==
    IF Len(s) = 0 THEN ""
    ELSE LowerChar(SubSeq(s, 1, 1)) \o Lower(SubSeq(s, 2, Len(s)))

\* str.strip(): drops leading and trailing blanks
RECURSIVE Strip(_)
Strip(s) ==
    IF Len(s) = 0 THEN ""
    ELSE IF SubSeq(s, 1, 1) = " " THEN Strip(SubSeq(s, 2, Len(s)))
    ELSE IF SubSeq(s, Len(s), Len(s)) = " " THEN Strip(SubSeq(s, 1, Len(s) - 1))
    ELSE s

(***************************************************************************)
(* safe_pct                                                                *)
(***************************************************************************)
\* Exact ties 100*x/total = q + 1/2 at which the double product
\* (x / total) * 100 is not q + 1/2 itself but the double next to it, so
\* that round() does not see a tie: below it (round() returns q) or above
\* it (round() returns q + 1).  These are all such pairs with
\* 0 <= x <= total <= 239; at every other tie the product is exact and
\* round() rounds half to even.
FloatTieBelow == {<<23, 40>>, <<46, 80>>, <<69, 120>>, <<92, 160>>, <<115, 200>>}
FloatTieAbove == {<<109, 200>>}

\* int(v) in place of int(round(v, 0))
RoundPctTruncates(x, total) == (100 * x) \div total

\* int(round(v, 0)) of the double v = (x / total) * 100, for 0 <= x
RoundPct(x, total) ==
    LET n == 100 * x
        q == n \div total
        r == n % total
    IN  IF 2 * r < total THEN q
        ELSE IF 2 * r > total THEN q + 1
        ELSE IF <<x, total>> \in FloatTieBelow THEN q
        ELSE IF <<x, total>> \in FloatTieAbove THEN q + 1
        ELSE IF q % 2 = 0 THEN q ELSE q + 1

safe_pct(x, total) ==
    IF total <= 0 THEN 0 ELSE RoundPct(x, total)

(***************************************************************************)
(* Habit recommendations                                                   *)
(***************************************************************************)
\* the three keys generate_habit_recommendations reads from the reply
Categories == {"exercise", "nutrition", "mental-health"}

\* The nine recommendable items of HABIT_CATEGORIES in the order sorted()
\* gives them (code point order of the source's literals):
\*   30분 걷기 < 가벼운 근력운동 < 감정 기록 3줄 < 단백질 포함 식사
\*   < 디지털 디톡스 30분 < 스트레칭 10분 < 심호흡 5분 < 야식 줄이기
\*   < 채소 한 접시
ItemOrder == <<"30min walk", "light strength", "emotion log 3 lines",
               "protein meal", "digital detox 30min", "stretch 10min",
               "deep breath 5min", "cut late snacks", "veggie plate">>

\* sorted(set(v)) for a list v of the items above
SortedSet(v) ==
    LET S == {v[i] : i \in 1..Len(v)}
        In(x) == x \in S
    IN  SelectSeq(ItemOrder, In)

heuristic_recommendation(goal, health_traits) ==
    LET trait_text == Lower(goal \o " " \o health_traits)
        weight   == Contains(trait_text, "weight") \/ Contains(trait_text, "diet")
        pressure == Contains(trait_text, "pressure") \/ Contains(trait_text, "sugar")
        sleep    == Contains(trait_text, "insomnia") \/ Contains(trait_text, "stress")
        ex == <<"30min walk", "stretch 10min">>
                \o (IF weight THEN <<"light strength">> ELSE <<>>)
        mh == <<"emotion log 3 lines">>
                \o (IF sleep THEN <<"deep breath 5min", "digital detox 30min">> ELSE <<>>)
        nu == <<"protein meal">>
                \o (IF weight THEN <<"cut late snacks">> ELSE <<>>)
                \o (IF pressure THEN <<"veggie plate">> ELSE <<>>)
    IN  [k \in Categories |->
            IF k = "exercise" THEN SortedSet(ex)
            ELSE IF k = "mental-health" THEN SortedSet(mh)
            ELSE SortedSet(nu)]

\* A JSON object of a reply is a function from ReplyKeys to what the object
\* holds under the key: [t |-> "missing"] (no such key), [t |-> "list", v |->
\* elements] or [t |-> "other"] (a value that is no list).  An element of a
\* list is a string [t |-> "str", s |-> ..] or a number [t |-> "int", n |-> 0..99].
ReplyKeys == {"exercise", "nutrition", "mental-health", "sleep"}
JStr(s) == [t |-> "str", s |-> s, n |-> 0]
JInt(n) == [t |-> "int", s |-> "", n |-> n]
JList(v) == [t |-> "list", v |-> v]
JOther == [t |-> "other", v |-> <<>>]
JMissing == [t |-> "missing", v |-> <<>>]
EmptyDict == [k \in ReplyKeys |-> JMissing]

Digits == <<"0", "1", "2", "3", "4", "5", "6", "7", "8", "9">>

\* str(x) of a list element
ToStr(x) ==
    IF x.t = "str" THEN x.s
    ELSE IF x.n < 10 THEN Digits[x.n + 1]
    ELSE Digits[(x.n \div 10) + 1] \o Digits[(x.n % 10) + 1]

\* s[:n] of a string or a list
Prefix(s, n) == SubSeq(s, 1, Min(n, Len(s)))

\* [str(x)[:20] for x in values][:3]
CleanValues(values) ==
    Prefix([i \in 1..Len(values) |-> Prefix(ToStr(values[i]), 20)], 3)

\* data.get(k, [])
GetOrEmptyList(data, k) ==
    IF data[k].t # "missing" THEN data[k] ELSE JList(<<>>)

\* the loop over the three keys: cleaned[k] for every k whose value is a list
Cleaned(data) ==
    LET K == {k \in Categories : GetOrEmptyList(data, k).t = "list"}
    IN  [k \in K |-> CleanValues(GetOrEmptyList(data, k).v)]

\* The reply of the chat completion as the try block sees it:
\*   [kind |-> "api_error"]   OpenAI(...) or create(...) raises
\*   [kind |-> "no_content"]  message.content is None: .strip() raises
\*   [kind |-> "not_json"]    json.loads(raw) raises
\*   [kind |-> "json_other"]  json.loads(raw) returns a value that is no dict
\*   [kind |-> "json_dict", data |-> d]  json.loads(raw) returns the dict d
generate_habit_recommendations(openai_api_key, goal, health_traits, reply) ==
    IF Strip(openai_api_key) = ""
    THEN heuristic_recommendation(goal, health_traits)
    ELSE IF /\ reply.kind = "json_dict"
            /\ DOMAIN Cleaned(reply.data) # {}
         THEN Cleaned(reply.data)
         ELSE heuristic_recommendation(goal, health_traits)

(***************************************************************************)
(* The page                                                                *)
(***************************************************************************)
\* [name for _, name in HABITS]
default_habits == <<"wake-up mission", "drink water", "study/read", "work out", "sleep">>

\* outcomes of the 6 x (random.randint(1, 5), random.randint(4, 9)) draws of
\* the demo seeding that are explored
RandomDraws ==
    { <<[checked |-> 1, mood |-> 4], [checked |-> 2, mood |-> 5],
        [checked |-> 3, mood |-> 6], [checked |-> 4, mood |-> 7],
        [checked |-> 5, mood |-> 8], [checked |-> 1, mood |-> 9]>>,
      <<[checked |-> 5, mood |-> 9], [checked |-> 5, mood |-> 4],
        [checked |-> 3, mood |-> 6], [checked |-> 2, mood |-> 7],
        [checked |-> 1, mood |-> 4], [checked |-> 4, mood |-> 5]>> }

\* positions the mood slider (1..10, initially 7) is moved to
MoodValues == {3, 7, 10}

\* dates the user picks in the date_input
Dates == (Today - DaysBack)..(Today + DaysFwd)

\* month of a day ordinal (non-leap year)
DaysBeforeMonth == <<0, 31, 59, 90, 120, 151, 181, 212, 243, 273, 304, 334, 365>>
MonthOf(d) == CHOOSE m \in 1..12 : DaysBeforeMonth[m] < d /\ d <= DaysBeforeMonth[m + 1]

Range(f) == {f[x] : x \in DOMAIN f}

\* the demo rows written when the history is empty, else the history as it is
init_demo_history_if_empty(h, draws) ==
    IF h # <<>> THEN h
    ELSE [i \in 1..6 |->
            [date          |-> (Today - 6) + (i - 1),
             pct           |-> safe_pct(draws[i].checked, 5),
             mood          |-> draws[i].mood,
             checked_count |-> draws[i].checked]]

\* The cells of the month of selected that show a percentage: date -> pct.
\* history_by_date is a dict comprehension, so of several rows of one date
\* the last one counts.
build_month_calendar(selected, history_rows) ==
    LET shown == {history_rows[i].date : i \in 1..Len(history_rows)}
        last(d) == CHOOSE i \in 1..Len(history_rows) :
                      /\ history_rows[i].date = d
                      /\ \A j \in (i + 1)..Len(history_rows) : history_rows[j].date # d
    IN  [d \in {x \in shown : MonthOf(x) = MonthOf(selected)} |-> history_rows[last(d)].pct]

\* the names "category | item" of the recommended items
recommended_flat(rbc) ==
    UNION {{k \o " | " \o rbc[k][i] : i \in 1..Len(rbc[k])} : k \in DOMAIN rbc}

\* the checklist of a date that has none yet: every name unchecked
NewChecklist(rbc) ==
    [name \in Range(default_habits) \cup recommended_flat(rbc) |-> FALSE]

\* daily_checklists after the `not in` test of the page
WithChecklist(dc, day, rbc) ==
    IF day \in DOMAIN dc THEN dc
    ELSE [d \in (DOMAIN dc) \cup {day} |-> IF d = day THEN NewChecklist(rbc) ELSE dc[d]]

\* save_day without its sorted(): the rows stay in the order of writing
SortedByDateKeepsOrder(rows) == rows

\* sorted(rows, key=date): a stable insertion sort
RECURSIVE SortedByDate(_)
SortedByDate(rows) ==
    IF Len(rows) <= 1 THEN rows
    ELSE LET front == SortedByDate(SubSeq(rows, 1, Len(rows) - 1))
             x     == rows[Len(rows)]
             n     == Cardinality({i \in 1..Len(front) : front[i].date <= x.date})
         IN  SubSeq(front, 1, n) \o <<x>> \o SubSeq(front, n + 1, Len(front))

\* rows[-6:] in place of rows[-7:]
Last7OffByOne(rows) == SubSeq(rows, Max(1, Len(rows) - 5), Len(rows))

\* rows[-7:]
Last7(rows) == SubSeq(rows, Max(1, Len(rows) - 6), Len(rows))

\* save_day without its search loop: every write appends
UpsertAlwaysAppends(rows, row) == Append(rows, row)

\* save_day whose loop finds the row and leaves it as it is
UpsertKeepsOldRow(rows, row) ==
    IF \E i \in 1..Len(rows) : rows[i].date = row.date THEN rows ELSE Append(rows, row)

\* rows after the update-or-append of save_day, before sorting
Upsert(rows, row) ==
    IF \E i \in 1..Len(rows) : rows[i].date = row.date
    THEN LET i == CHOOSE k \in 1..Len(rows) :
                     /\ rows[k].date = row.date
                     /\ \A j \in 1..(k - 1) : rows[j].date # row.date
         IN  [rows EXCEPT ![i] = row]
    ELSE Append(rows, row)

save_day(rows, day, pct, m, count) ==
    Last7(SortedByDate(Upsert(rows,
        [date |-> day, pct |-> pct, mood |-> m, checked_count |-> count])))

\* inputs of the recommendation form explored on the page
KeyInputs == {"", "sk-1"}
GoalInputs == {"", "  ", "Lose WEIGHT"}
TraitInputs == {"", "stress at work"}
Reply(kind, data) == [kind |-> kind, data |-> data]
PageReplies ==
    { Reply("api_error", EmptyDict),
      Reply("json_dict", EmptyDict),
      Reply("json_dict", [EmptyDict EXCEPT !["exercise"] = JList(<<JStr("jog"), JStr("jog")>>)]),
      Reply("json_dict", [k \in ReplyKeys |-> JList(<<JStr("yoga")>>)]) }

NoToggle == "(none)"
NoReply == Reply("api_error", EmptyDict)

\* The form's inputs at a press of the button.  No request is made with a
\* blank key, so one reply stands for all there; the other inputs are
\* combined freely.
FormInputs ==
    [key : {""}, goal : GoalInputs, traits : TraitInputs, reply : {NoReply}]
    \cup [key : KeyInputs \ {""}, goal : GoalInputs, traits : TraitInputs,
          reply : PageReplies]

\* One run of the script.  selected, m: values of the date_input and of the
\* slider; toggle: the checkbox whose value the user changed (NoToggle: none);
\* press: the recommendation button fired, with the form's inputs and the
\* reply of the API; draws: the random draws of the demo seeding.
PageRun(selected, m, toggle, press, key, goal, traits, reply, draws) ==
    LET h1  == init_demo_history_if_empty(history, draws)
        dc1 == WithChecklist(daily_checklists, selected, recommended_by_category)
        old == dc1[selected]
        checked_map == [name \in DOMAIN old |->
                            IF name = toggle THEN ~old[name] ELSE old[name]]
        count == Cardinality({name \in DOMAIN checked_map : checked_map[name]})
        pct == safe_pct(count, Cardinality(DOMAIN checked_map))
    IN  /\ runs < MaxRuns
        /\ runs' = runs + 1
        /\ selected_date' = selected
        /\ mood' = m
        /\ calendar_rows' = build_month_calendar(selected, h1)
        /\ daily_checklists' = [dc1 EXCEPT ![selected] = checked_map]
        /\ pressed' = press
        /\ recommended_by_category' =
              IF press /\ Strip(goal) # ""
              THEN generate_habit_recommendations(key, goal, traits, reply)
              ELSE recommended_by_category
        /\ checked_count' = count
        /\ total_count' = Cardinality(DOMAIN checked_map)
        /\ achievement_pct' = pct
        /\ history' = save_day(h1, selected, pct, m, count)
        /\ today_saved' = TRUE
        /\ UNCHANGED pureVars

Draws == IF history = <<>> THEN RandomDraws ELSE {<<>>}

\* the page is loaded, or re-run by a widget that changes none of the state
\* modelled (the report button, the city, the coach style)
Rerun ==
    \E draws \in Draws :
        PageRun(selected_date, mood, NoToggle, FALSE, "", "", "", NoReply, draws)

\* the user picks another date
SelectDate ==
    /\ runs > 0
    /\ \E d \in Dates \ {selected_date} :
          PageRun(d, mood, NoToggle, FALSE, "", "", "", NoReply, <<>>)

\* the user ticks or unticks one checkbox of the checklist shown
ToggleCheckbox ==
    /\ runs > 0
    /\ \E name \in DOMAIN daily_checklists[selected_date] :
          PageRun(selected_date, mood, name, FALSE, "", "", "", NoReply, <<>>)

\* the user moves the mood slider
MoveSlider ==
    /\ runs > 0
    /\ \E m \in MoodValues \ {mood} :
          PageRun(selected_date, m, NoToggle, FALSE, "", "", "", NoReply, <<>>)

\* the user presses the recommendation button
PressRecommend ==
    /\ runs > 0
    /\ \E inp \in FormInputs :
          PageRun(selected_date, mood, NoToggle, TRUE,
                  inp.key, inp.goal, inp.traits, inp.reply, <<>>)

PageInit ==
    /\ history = <<>>
    /\ today_saved = FALSE
    /\ recommended_by_category = <<>>
    /\ daily_checklists = <<>>
    /\ selected_date = Today
    /\ mood = 7
    /\ checked_count = 0
    /\ total_count = 0
    /\ achievement_pct = 0
    /\ calendar_rows = <<>>
    /\ pressed = FALSE
    /\ runs = 0

Init ==
    /\ PageInit
    /\ pure_in = [f |-> "none"]
    /\ pure_out = [done |-> FALSE]

Next ==
    \/ Rerun
    \/ SelectDate
    \/ ToggleCheckbox
    \/ MoveSlider
    \/ PressRecommend

Spec == Init /\ [][Next]_vars

(***************************************************************************)
(* safe_pct and generate_habit_recommendations on their own                *)
(***************************************************************************)
PctInputs ==
    {[f |-> "safe_pct", x |-> x, total |-> total] :
        <<x, total>> \in {<<a, b>> \in (0..MaxTotal) \X (-1..MaxTotal) : a <= Max(b, 1)}}

InitPct ==
    /\ PageInit
    /\ pure_in \in PctInputs
    /\ pure_out = [done |-> FALSE]

ApplySafePct ==
    /\ pure_in.f = "safe_pct"
    /\ ~pure_out.done
    /\ pure_out' = [done |-> TRUE, value |-> safe_pct(pure_in.x, pure_in.total)]
    /\ UNCHANGED <<pageVars, pure_in>>

NextPct == ApplySafePct

SpecPct == InitPct /\ [][NextPct]_vars

Long21 == "abcdefghijklmnopqrstu"
\* values a reply gives for one of the three keys
KeyValues ==
    { JMissing,
      JOther,
      JList(<<>>),
      JList(<<JStr("jog")>>),
      JList(<<JStr(Long21), JInt(42)>>),
      JList(<<JStr("a"), JStr("b"), JStr("c"), JStr("d")>>) }
RecReplies ==
    { Reply(kind, EmptyDict) : kind \in {"api_error", "no_content", "not_json", "json_other"} }
    \cup { Reply("json_dict", [f EXCEPT !["sleep"] = v]) :
             <<f, v>> \in [ReplyKeys -> KeyValues] \X {JMissing, JList(<<JStr("nap")>>)} }

RecInputs ==
    [f : {"generate"}, key : KeyInputs \cup {" "}, goal : GoalInputs \cup {"sleep"},
     traits : TraitInputs \cup {"blood sugar"}, reply : RecReplies]

InitRec ==
    /\ PageInit
    /\ pure_in \in RecInputs
    /\ pure_out = [done |-> FALSE]

ApplyGenerate ==
    /\ pure_in.f = "generate"
    /\ ~pure_out.done
    /\ pure_out' = [done |-> TRUE,
                    value |-> generate_habit_recommendations(
                                 pure_in.key, pure_in.goal, pure_in.traits, pure_in.reply)]
    /\ UNCHANGED <<pageVars, pure_in>>

NextRec == ApplyGenerate

SpecRec == InitRec /\ [][NextRec]_vars

(***************************************************************************)
(* Properties                                                              *)
(***************************************************************************)
RowsOf(d) == {i \in 1..Len(history) : history[i].date = d}
Latest(i) ==
    /\ history[i].pct = achievement_pct
    /\ history[i].mood = mood
    /\ history[i].checked_count = checked_count
CheckedOn(d) == {name \in DOMAIN daily_checklists[d] : daily_checklists[d][name]}
DemoDates == (Today - 6)..(Today - 1)

\* C1 as claimed: after every save_day(d) (every page run, d the selected
\* date) the history holds exactly one record for d, and it carries the pct,
\* mood and checked_count of the run.
C1_ExactlyOneLatestRecord ==
    runs > 0 =>
        /\ Cardinality(RowsOf(selected_date)) = 1
        /\ \A i \in RowsOf(selected_date) : Latest(i)

\* C1 as amended: after every save_day(d) the history holds at most one
\* record for d, carrying the values of the run; it holds none only when the
\* history is full (7 records) and all of them are of later dates than d.
C1_UpsertThenKeepLatest7 ==
    runs > 0 =>
        /\ Cardinality(RowsOf(selected_date)) <= 1
        /\ \A i \in RowsOf(selected_date) : Latest(i)
        /\ RowsOf(selected_date) = {} =>
              /\ Len(history) = 7
              /\ \A i \in 1..Len(history) : history[i].date > selected_date

\* a record that existed (the checkbox was ticked in a later run on the same
\* date) has been overwritten with the values of the latest run
C1_Witness ==
    /\ runs >= 2
    /\ checked_count > 0
    /\ \E i \in RowsOf(selected_date) : history[i].checked_count = checked_count

\* C2: no two history records have the same date, and every (date, habit
\* name) pair of daily_checklists holds one boolean.
C2_KeyUniqueness ==
    /\ \A i, j \in 1..Len(history) : history[i].date = history[j].date => i = j
    /\ \A d \in DOMAIN daily_checklists :
          \A name \in DOMAIN daily_checklists[d] : daily_checklists[d][name] \in BOOLEAN

\* a demo-seeded date has been selected and saved over
C2_Witness ==
    /\ runs >= 2
    /\ selected_date \in DemoDates
    /\ RowsOf(selected_date) # {}
    /\ selected_date \in DOMAIN daily_checklists

RecommendedCount ==
    Cardinality(UNION {{<<k, i>> : i \in 1..Len(recommended_by_category[k])} :
                          k \in DOMAIN recommended_by_category})

\* C4: at every page run (that does not itself change the recommendations)
\* the progress shown for the selected date is (done_count, total_count) with
\* total_count = 5 default habits + the recommended habits and done_count the
\* number of habits checked on that date.
C4_DailyProgress ==
    (runs > 0 /\ ~pressed) =>
        /\ total_count = Len(default_habits) + RecommendedCount
        /\ checked_count = Cardinality(CheckedOn(selected_date))

\* C5: every record of the history that feeds the 7-day chart has a date in
\* today-6 .. today.
C5_TrailingWindow ==
    \A i \in 1..Len(history) :
        history[i].date \in (Today - 6)..Today

\* C6 as claimed: for every date without a recorded check, the history
\* record and the calendar cell of the date show 0.
C6_MissingIsZero ==
    /\ \A i \in 1..Len(history) :
          (history[i].date \notin DOMAIN daily_checklists
              \/ CheckedOn(history[i].date) = {})
          => (history[i].pct = 0 /\ history[i].checked_count = 0)
    /\ \A d \in DOMAIN calendar_rows :
          (d \notin DOMAIN daily_checklists \/ CheckedOn(d) = {})
          => calendar_rows[d] = 0

\* C6 as amended: for every date whose checklist exists and holds no check,
\* the history record of the date (if kept) shows 0 done and 0%, and so does
\* its calendar cell unless the date is the selected one (the calendar is
\* drawn before the run saves); a record of a date without a checklist is a
\* demo record of today-6 .. today-1 with 1..5 done and the matching pct.
C6_UncheckedIsZeroButDemo ==
    /\ \A d \in DOMAIN daily_checklists :
          CheckedOn(d) = {} =>
             /\ \A i \in RowsOf(d) : history[i].pct = 0 /\ history[i].checked_count = 0
             /\ (d # selected_date /\ d \in DOMAIN calendar_rows) => calendar_rows[d] = 0
    /\ \A i \in 1..Len(history) :
          history[i].date \notin DOMAIN daily_checklists =>
             /\ history[i].date \in DemoDates
             /\ history[i].checked_count \in 1..5
             /\ history[i].pct = safe_pct(history[i].checked_count, 5)
             /\ history[i].pct >= 20

\* a demo date was selected and left unchecked: its record now shows 0 while
\* the calendar of an other, later selected date shows its 0 too
C6_Witness ==
    \E d \in DemoDates \cap DOMAIN daily_checklists :
        /\ CheckedOn(d) = {}
        /\ d # selected_date
        /\ \E i \in RowsOf(d) : history[i].pct = 0
        /\ d \in DOMAIN calendar_rows
        /\ \E j \in 1..Len(history) : history[j].date \notin DOMAIN daily_checklists

\* C7 as claimed: safe_pct returns 0 when total <= 0, and for 0 <= x <= total,
\* total > 0, a value in 0..100 that is 100 exactly when x = total and 0
\* exactly when x = 0.
C7_SafePctExtremes ==
    pure_out.done =>
        LET x == pure_in.x
            total == pure_in.total
            v == pure_out.value
        IN  /\ total <= 0 => v = 0
            /\ (total > 0 /\ x <= total) =>
                  /\ v \in 0..100
                  /\ (v = 100) <=> (x = total)
                  /\ (v = 0) <=> (x = 0)

\* C7 as amended: safe_pct returns 0 when total <= 0, and for 0 <= x <= total,
\* total > 0, a value in 0..100 that is 100 when x = total and 0 when x = 0;
\* when total < 200 it is 100 only when x = total and 0 only when x = 0.
C7_SafePctExtremesBelow200 ==
    pure_out.done =>
        LET x == pure_in.x
            total == pure_in.total
            v == pure_out.value
        IN  /\ total <= 0 => v = 0
            /\ (total > 0 /\ x <= total) =>
                  /\ v \in 0..100
                  /\ (x = total) => v = 100
                  /\ (x = 0) => v = 0
                  /\ total < 200 => ((v = 100) => (x = total))
                  /\ total < 200 => ((v = 0) => (x = 0))

\* the largest total at which one missing habit still shows below 100%
C7_Witness ==
    /\ pure_out.done
    /\ pure_in.total = 199
    /\ pure_in.x = 198
    /\ pure_out.value = 99

\* C9: in every page run after the one that generated them, the checklist of
\* the selected date holds an item "category | item" for every recommended
\* habit.
C9_RecommendationsInChecklist ==
    (runs > 0 /\ ~pressed) =>
        recommended_flat(recommended_by_category)
            \subseteq DOMAIN daily_checklists[selected_date]

Usable(reply) ==
    /\ reply.kind = "json_dict"
    /\ \E k \in Categories :
          reply.data[k].t = "list" /\ Len(reply.data[k].v) > 0

\* C10: with a blank key, a failed or unparsable reply, a reply that is no
\* JSON object or one without usable items, the result is the heuristic
\* recommendation; otherwise it has only the three category keys, each with
\* at most 3 items of at most 20 characters, and one category is non-empty.
C10_FallbackOrCleaned ==
    pure_out.done =>
        LET v == pure_out.value
        IN  IF Strip(pure_in.key) = "" \/ ~Usable(pure_in.reply)
            THEN v = heuristic_recommendation(pure_in.goal, pure_in.traits)
            ELSE /\ DOMAIN v \subseteq Categories
                 /\ \A k \in DOMAIN v :
                       /\ Len(v[k]) <= 3
                       /\ \A i \in 1..Len(v[k]) : Len(v[k][i]) <= 20
                 /\ \E k \in DOMAIN v : Len(v[k]) > 0

\* C11: at the end of every page run the history is non-empty, holds at
\* most 7 records and is in strictly ascending date order; so the demo
\* seeding finds a non-empty history in every later run and changes nothing:
\* it acts in the first run only, which leaves its 6 records of
\* today-6 .. today-1 (1..5 done each) next to the record of today.
C11_HistoryShape ==
    runs > 0 =>
        /\ Len(history) \in 1..7
        /\ \A i \in 1..(Len(history) - 1) : history[i].date < history[i + 1].date
        /\ \A draws \in RandomDraws :
              init_demo_history_if_empty(history, draws) = history
        /\ runs = 1 =>
              /\ Len(history) = 7
              /\ \A i \in 1..6 :
                    /\ history[i].date = (Today - 6) + (i - 1)
                    /\ history[i].checked_count \in 1..5
              /\ history[7].date = Today

\* a date older than every record kept was saved after a later one: the
\* history was sorted and cut, and starts at today-5
C11_Witness ==
    /\ runs = 3
    /\ selected_date = Today - 6
    /\ Len(history) = 7
    /\ history[1].date = Today - 5
    /\ history[7].date = Today + 1

====
